---- MODULE Spec2Model ----
(***************************************************************************)
(* Lola voice chat (src/lola_voice_chat.py): the session's main loop, the  *)
(* speaker worker that drains tts_queue, and the per-reply interrupt       *)
(* monitor threads, with the two shared events interrupt_flag and          *)
(* is_speaking.                                                            *)
(*                                                                         *)
(* Texts are sequences of one-character strings so that lower(), strip(),  *)
(* substring containment and the sentence splitter are computed, not       *)
(* assumed.  The fixed announcements are abbreviated to their first word:  *)
(* the program only tests them for being non-blank.                        *)
(***************************************************************************)
EXTENDS Integers, Sequences, FiniteSets, TLC

\* ---------------------------------------------------------------- bounds
\* Number of captures (iterations of the main loop) explored.
MaxTurns == 2

\* Number of captures explored when the session thread runs alone (SpecSession):
\* the sixth exchange is the first to push the history past 11 entries.
MaxSessionTurns == 6

\* Length of the queues that speak() and clear_speech_queue() are called on
\* when they are examined on their own (SpecSpeak, SpecClear).
MaxQueue == 3

\* Length of the texts split_into_sentences() is applied to on its own
\* (SpecSplit).
MaxLen == 5

\* calls of play() and stop() made on one AudioPlayer
MaxCalls == 3

\* sermons search_sermonaudio returns
MaxResults == 2

\* hymns one source (SmallChurchMusic, Archive.org, the local folder) returns
MaxHits == 3

\* ---------------------------------------------------------------- texts
Whitespace == {" "}
Terminators == {".", "!", "?"}

lowerChar(c) ==
    CASE c = "S" -> "s"
      [] c = "B" -> "b"
      [] c = "H" -> "h"
      [] c = "N" -> "n"
      [] OTHER -> c

\* str.lower()
lower(s) == [k \in 1..Len(s) |-> lowerChar(s[k])]

RECURSIVE lstrip(_)
lstrip(s) == IF s # <<>> /\ Head(s) \in Whitespace THEN lstrip(Tail(s)) ELSE s

RECURSIVE rstrip(_)
rstrip(s) ==
    IF s # <<>> /\ s[Len(s)] \in Whitespace
    THEN rstrip(SubSeq(s, 1, Len(s) - 1))
    ELSE s

\* str.strip()
strip(s) == rstrip(lstrip(s))

\* Python's  sub in s  for strings
contains(s, sub) ==
    \E k \in 0..(Len(s) - Len(sub)) : SubSeq(s, k + 1, k + Len(sub)) = sub

\* text[a:b] with 0-based half-open Python slice positions
slice(s, a, b) == SubSeq(s, a + 1, b)

\* ------------------------------------------------- 3. sentence splitter
\* End (exclusive, 0-based) of the whitespace run that starts at position p.
RECURSIVE wsEnd(_, _)
wsEnd(text, p) ==
    IF p < Len(text) /\ text[p + 1] \in Whitespace THEN wsEnd(text, p + 1) ELSE p

\* SENTENCE_END = (?<=[.!?])\s+ : the first match at or after position p, as
\* <<start, end>>, or <<>> when there is none.
RECURSIVE SENTENCE_END(_, _)
SENTENCE_END(text, p) ==
    IF p >= Len(text) THEN <<>>
    ELSE IF p >= 1 /\ text[p] \in Terminators /\ text[p + 1] \in Whitespace
         THEN <<p, wsEnd(text, p)>>
         ELSE SENTENCE_END(text, p + 1)

\* the  for match in SENTENCE_END.finditer(text)  loop, from current_pos on
RECURSIVE splitFrom(_, _, _)
splitFrom(text, current_pos, sentences) ==
    LET m == SENTENCE_END(text, current_pos) IN
    IF m = <<>>
    THEN LET final == strip(slice(text, current_pos, Len(text))) IN
         IF final # <<>> THEN Append(sentences, final) ELSE sentences
    ELSE LET sentence == strip(slice(text, current_pos, m[2])) IN
         splitFrom(text, m[2],
                   IF sentence # <<>> THEN Append(sentences, sentence) ELSE sentences)

\* the split with its last unit left out
split_without_last(text) ==
    IF text = <<>> THEN <<>>
    ELSE LET sentences == splitFrom(text, 0, <<>>) IN
         IF Len(sentences) >= 2 THEN SubSeq(sentences, 1, Len(sentences) - 1)
         ELSE IF sentences # <<>> THEN sentences ELSE <<strip(text)>>

\* the split whose fallback unit is the text as it is, not trimmed
split_untrimmed(text) ==
    IF text = <<>> THEN <<>>
    ELSE LET sentences == splitFrom(text, 0, <<>>) IN
         IF sentences # <<>> THEN sentences ELSE <<text>>

\* lines 58-71
split_into_sentences(text) ==
    IF text = <<>> THEN <<>>
    ELSE LET sentences == splitFrom(text, 0, <<>>) IN
         IF sentences # <<>> THEN sentences ELSE <<strip(text)>>

\* ------------------------------------------------------- fixed utterances
WELCOME == <<"H", "e", "l", "l", "o">>
REENGAGE == <<"I", "'", "m">>
FAREWELL == <<"T", "a", "k", "e">>
APOLOGY == <<"I", "'", "m", " ", "s", "o", "r", "r", "y">>
ACKNOWLEDGE == <<"O", "f", " ", "c", "o", "u", "r", "s", "e">>

SystemKinds == {"welcome", "reengage", "farewell", "apology", "acknowledge"}

\* The permanent first turn of the conversation (lines 247-254).
SystemTurn == [role |-> "system", content |-> <<"Y", "o", "u">>, turn |-> 0]

\* 6. INTERRUPT_PHRASES
INTERRUPT_PHRASES == {
    <<"s", "t", "o", "p">>,
    <<"h", "a", "l", "t">>,
    <<"p", "a", "u", "s", "e">>,
    <<"w", "a", "i", "t">>,
    <<"h", "o", "l", "d", " ", "o", "n">>,
    <<"t", "h", "a", "t", "'", "s", " ", "e", "n", "o", "u", "g", "h">>,
    <<"o", "k", "a", "y", " ", "t", "h", "a", "n", "k", " ", "y", "o", "u">>,
    <<"y", "o", "u", " ", "c", "a", "n", " ", "p", "a", "u", "s", "e", " ", "n", "o", "w">>,
    <<"e", "n", "o", "u", "g", "h">>,
    <<"o", "k", "a", "y", " ", "s", "t", "o", "p">>,
    <<"a", "l", "r", "i", "g", "h", "t", " ", "s", "t", "o", "p">>,
    <<"t", "h", "a", "n", "k", " ", "y", "o", "u">>,
    <<"i", "'", "v", "e", " ", "h", "e", "a", "r", "d", " ", "e", "n", "o", "u", "g", "h">>,
    <<"t", "h", "a", "t", " ", "w", "i", "l", "l", " ", "d", "o">>,
    <<"n", "o", " ", "m", "o", "r", "e">>,
    <<"p", "l", "e", "a", "s", "e", " ", "s", "t", "o", "p">>,
    <<"c", "a", "n", " ", "y", "o", "u", " ", "s", "t", "o", "p">>,
    <<"l", "e", "t", " ", "m", "e", " ", "t", "h", "i", "n", "k">> }

\* the exit words of line 291
EXIT_WORDS == {
    <<"e", "x", "i", "t">>,
    <<"q", "u", "i", "t">>,
    <<"g", "o", "o", "d", "b", "y", "e">>,
    <<"b", "y", "e", " ", "b", "y", "e">> }

\* The methods of Python's str that the program calls.  str has no method
\* named agricultura: looking it up raises AttributeError.
StrMethods == {"lower", "strip"}

\* ------------------------------------------------------ inputs (bounded)
\* What a capture followed by recognize_google can yield: an exception name
\* in err, or err = "none" and the recognised text.
Heard(err, text) == [err |-> err, text |-> text]

\* Outcomes of the interrupt monitor's 2-second window (lines 194-198).
MonitorHeard == {
    Heard("WaitTimeoutError", <<>>),
    Heard("UnknownValueError", <<>>),
    Heard("RequestError", <<>>),
    Heard("none", <<"h", "i">>),
    Heard("none", <<"N", "o", " ", "m", "o", "r", "e">>) }

\* Outcomes of the main capture and recognition (lines 262-284).
MainHeard == {
    Heard("WaitTimeoutError", <<>>),
    Heard("MicError", <<>>),
    Heard("UnknownValueError", <<>>),
    Heard("RequestError", <<>>),
    Heard("none", <<" ">>),
    Heard("none", <<"h", "i">>),
    Heard("none", <<"B", "y", "e", " ", "b", "y", "e">>) }

\* Outcomes of the HTTP exchange inside ask_llama (lines 39-51).
Responses == {
    [kind |-> "exception", content |-> <<>>],
    [kind |-> "status", content |-> <<>>],
    [kind |-> "nochoices", content |-> <<>>],
    [kind |-> "content", content |-> <<" ">>],
    [kind |-> "content", content |-> <<"O", "k", ".", " ">>],
    [kind |-> "content", content |-> <<"H", "i", ".", " ", "N", "o", "!">>] }

\* Python's None as the value of answer
NoAnswer == [none |-> TRUE, text |-> <<>>]

\* ask_llama: None (.none) or the stripped content.
ask_llama(resp) ==
    IF resp.kind = "content"
    THEN [none |-> FALSE, text |-> strip(resp.content)]
    ELSE NoAnswer

\* Python truthiness of ask_llama's result (line 308:  if not answer).
truthy(ans) == ~ans.none /\ ans.text # <<>>

\* ------------------------------------------------------------------ state
VARIABLES
    pc,             \* main(): where the session is
    turn,           \* captures started so far (bounds the exploration)
    silence_count,  \* line 256
    conversation,   \* line 247: sequence of turns
    sentences,      \* line 315: the units of the current reply
    i,              \* line 323: index (1-based) of the unit the for loop is at
    interrupted,    \* line 322
    answer,         \* line 306: what ask_llama returned
    cycle,          \* reply cycles started = monitor threads created
    tts_queue,      \* line 96
    interrupt_flag, \* line 97
    is_speaking,    \* line 98
    wpc,            \* tts_worker(): where the worker is
    cur,            \* tts_worker(): the item it dequeued
    mpc,            \* interrupt_monitor(), per monitor thread: where it is
    heard,          \* history: what a monitor's capture window last yielded
    nenq,           \* history: items put on tts_queue so far
    played,         \* history: units the engine was asked to say, in order
    dropped,        \* history: seq of the items taken off the queue unsaid
    player,         \* agents/audio_player.py: the fields of the AudioPlayer
    client,         \* the thread calling play() and stop(): where it is
    procs,          \* the player processes started with Popen, by number
    monitors,       \* _monitor_process(), per playback: where the thread is
    timers,         \* mark_finished() threads still sleeping
    agent           \* a call of a function of agents/: arguments and result

vars == <<pc, turn, silence_count, conversation, sentences, i, interrupted,
          answer, cycle, tts_queue, interrupt_flag, is_speaking, wpc, cur, mpc, heard,
          nenq, played, dropped, player, client, procs, monitors, timers,
          agent>>

\* the voice chat (lola_voice_chat.py) and the agents (agents/*.py) share no
\* state
chatVars == <<pc, turn, silence_count, conversation, sentences, i, interrupted,
              answer, cycle, tts_queue, interrupt_flag, is_speaking, wpc, cur,
              mpc, heard, nenq, played, dropped>>
playerVars == <<player, client, procs, monitors, timers>>
agentsVars == <<playerVars, agent>>

mainVars == <<pc, turn, silence_count, conversation, sentences, i, interrupted,
              answer, cycle>>
workerVars == <<wpc, cur, played>>

Monitors == 1..(IF MaxTurns > MaxSessionTurns THEN MaxTurns ELSE MaxSessionTurns)

\* The shutdown sentinel (tts_queue.put(None), line 357).
None == [text |-> <<>>, kind |-> "None", seq |-> 0, cyc |-> 0, idx |-> 0]
NoItem == [text |-> <<>>, kind |-> "-", seq |-> 0, cyc |-> 0, idx |-> 0]
NoAudio == Heard("-", <<>>)

\* A queue item: the sentence, tagged (history only) with what it is, its
\* position in the order of enqueueing, and the reply cycle and unit index.
Item(text, kind, cyc, idx) ==
    [text |-> text, kind |-> kind, seq |-> nenq + 1, cyc |-> cyc, idx |-> idx]

\* speak() putting the sentence at the head of the queue instead of its tail
speak_front(q, item) ==
    IF item.text # <<>> /\ strip(item.text) # <<>> THEN <<item>> \o q ELSE q

\* speak(), lines 168-171
speak(q, item) ==
    IF item.text # <<>> /\ strip(item.text) # <<>> THEN Append(q, item) ELSE q

Speak(item) ==
    /\ tts_queue' = speak(tts_queue, item)
    /\ nenq' = nenq + (Len(tts_queue') - Len(tts_queue))

NoSpeak == UNCHANGED <<tts_queue, nenq>>

\* ------------------------------------------------ agents: initial state
\* Python's None, where the code has an optional string
Missing == "<None>"

\* not x, for an optional string x
falsy(x) == x \in {Missing, ""}

\* AudioPlayer.__init__, lines 79-89: process is 0 for None, otherwise the
\* number of the process; paths holds the players find_ffplay, find_vlc and
\* find_mpg123 found
AudioPlayer(paths) ==
    [process |-> 0, current_url |-> Missing, is_playing_flag |-> FALSE,
     player_type |-> Missing, lock |-> "free", paths |-> paths]

\* the thread that calls the player, before its first call; tried and calls
\* are history: the backends the current play() went through, and the calls
\* that returned
Caller ==
    [pc |-> "idle", url |-> Missing, async_mode |-> TRUE, backend |-> 0,
     tried |-> <<>>, calls |-> <<>>]

NoMonitor == [pc |-> "unborn", target |-> 0]

\* no function of agents/ has been called
NoCall == [pc |-> "none"]

InitPlayer(paths) ==
    /\ player = AudioPlayer(paths)
    /\ client = Caller
    /\ procs = [p \in 1..MaxCalls |-> "unborn"]
    /\ monitors = [p \in 1..MaxCalls |-> NoMonitor]
    /\ timers = 0

\* lola_voice_chat.py does not import the agents
InitAgents ==
    /\ InitPlayer({})
    /\ agent = NoCall

Init ==
    /\ InitAgents
    /\ pc = "start"
    /\ turn = 0
    /\ silence_count = 0
    /\ conversation = <<>>
    /\ sentences = <<>>
    /\ i = 0
    /\ interrupted = FALSE
    /\ answer = NoAnswer
    /\ cycle = 0
    /\ tts_queue = <<>>
    /\ interrupt_flag = FALSE
    /\ is_speaking = FALSE
    /\ wpc = "get"
    /\ cur = NoItem
    /\ mpc = [w \in Monitors |-> "unborn"]
    /\ heard = NoAudio
    /\ nenq = 0
    /\ played = <<>>
    /\ dropped = {}

\* The process is alive until main() returns; the worker and the monitors are
\* daemon threads and end with it.
Running == pc # "exited"

\* ------------------------------------------------------------ 7. main()
\* lines 238-256
MainStart ==
    /\ UNCHANGED agentsVars
    /\ UNCHANGED answer
    /\ pc = "start"
    /\ Speak(Item(WELCOME, "welcome", 0, 0))
    /\ conversation' = <<SystemTurn>>
    /\ silence_count' = 0
    /\ pc' = "listen"
    /\ UNCHANGED <<turn, sentences, i, interrupted, cycle, interrupt_flag,
                   is_speaking, wpc, cur, mpc, heard, played, dropped>>

\* the exit words looked for in the text as recognised, not lowered
is_exit_cased(user_text) == \E word \in EXIT_WORDS : contains(user_text, word)

\* line 291
is_exit(user_text) == \E word \in EXIT_WORDS : contains(lower(user_text), word)

\* the prompt spoken already on the second timeout
reengage_due_early(count) == count >= 2

\* line 268
reengage_due(count) == count >= 3

\* lines 258-301: one capture, its recognition, and what the loop does with it
\* (at most maxTurns captures are explored)
Listen(maxTurns) ==
    /\ UNCHANGED agentsVars
    /\ UNCHANGED answer
    /\ pc = "listen"
    /\ turn < maxTurns
    /\ turn' = turn + 1
    /\ \E h \in MainHeard :
         IF h.err = "WaitTimeoutError"
         THEN /\ IF reengage_due(silence_count + 1)
                 THEN /\ Speak(Item(REENGAGE, "reengage", 0, 0))
                      /\ silence_count' = 0
                 ELSE /\ NoSpeak
                      /\ silence_count' = silence_count + 1
              /\ UNCHANGED <<pc, conversation>>
         ELSE IF h.err = "MicError"
         THEN UNCHANGED <<pc, conversation, silence_count, tts_queue, nenq>>
         ELSE /\ silence_count' = 0
              /\ IF h.err # "none" \/ strip(h.text) = <<>>
                 THEN UNCHANGED <<pc, conversation, tts_queue, nenq>>
                 ELSE LET user_text == strip(h.text) IN
                      IF is_exit(user_text)
                      THEN /\ Speak(Item(FAREWELL, "farewell", 0, 0))
                           /\ pc' = "shutdown"
                           /\ UNCHANGED conversation
                      ELSE /\ conversation' = Append(conversation,
                                 [role |-> "user", content |-> user_text,
                                  turn |-> turn'])
                           /\ pc' = "think"
                           /\ NoSpeak
    /\ UNCHANGED <<sentences, i, interrupted, cycle, interrupt_flag,
                   is_speaking, wpc, cur, mpc, heard, played, dropped>>

MainListen == Listen(MaxTurns)

\* conversation.pop(), line 310
pop(conv) == SubSeq(conv, 1, Len(conv) - 1)

\* the failure branch without its conversation.pop()
on_no_answer_keep(conv) == conv

\* lines 308-311: what is left of the history when no answer came back
on_no_answer(conv) == pop(conv)

\* the assistant turn recording only the first sentence of the reply
record_reply_first(conv, ans, t) ==
    Append(conv, [role |-> "assistant",
                  content |-> split_into_sentences(ans.text)[1],
                  turn |-> t])

\* line 313: the assistant turn
record_reply(conv, ans, t) ==
    Append(conv, [role |-> "assistant", content |-> ans.text, turn |-> t])

\* lines 303-320: the reasoning call and, on a reply, the start of the cycle:
\* the assistant turn, the split, interrupt_flag.clear() and a new monitor
\* thread.  (long_request, lines 295-299, only chooses max_tokens; what comes
\* back is one of Responses either way.)
MainThink ==
    /\ UNCHANGED agentsVars
    /\ pc = "think"
    /\ \E resp \in Responses :
         /\ answer' = ask_llama(resp)
         /\ IF ~truthy(answer')
               THEN /\ Speak(Item(APOLOGY, "apology", 0, 0))
                 /\ conversation' = on_no_answer(conversation)
                 /\ pc' = "listen"
                 /\ UNCHANGED <<sentences, i, interrupted, cycle,
                                interrupt_flag, mpc>>
            ELSE /\ conversation' = record_reply(conversation, answer', turn)
                 /\ sentences' = split_into_sentences(answer'.text)
                 /\ interrupt_flag' = FALSE
                 /\ cycle' = cycle + 1
                 /\ mpc' = [mpc EXCEPT ![cycle + 1] = "loop"]
                 /\ interrupted' = FALSE
                 /\ i' = 1
                 /\ pc' = "for"
                 /\ NoSpeak
    /\ UNCHANGED <<turn, silence_count, is_speaking, wpc, cur, heard, played, dropped>>

\* lines 323-326: top of the for loop
MainFor ==
    /\ UNCHANGED agentsVars
    /\ UNCHANGED answer
    /\ pc = "for"
    /\ IF i > Len(sentences)
       THEN pc' = "after_for" /\ UNCHANGED interrupted
       ELSE IF interrupt_flag
            THEN interrupted' = TRUE /\ pc' = "after_for"
            ELSE pc' = "speak" /\ UNCHANGED interrupted
    /\ UNCHANGED <<turn, silence_count, conversation, sentences, i, cycle,
                   tts_queue, interrupt_flag, is_speaking, wpc, cur, mpc,
                   heard, nenq, played, dropped>>

\* line 328
MainSpeak ==
    /\ UNCHANGED agentsVars
    /\ UNCHANGED answer
    /\ pc = "speak"
    /\ Speak(Item(sentences[i], "reply", cycle, i))
    /\ pc' = "wait"
    /\ UNCHANGED <<turn, silence_count, conversation, sentences, i,
                   interrupted, cycle, interrupt_flag, is_speaking, wpc, cur,
                   mpc, heard, played, dropped>>

\* a wait that only watches interrupt_flag
wait_for_interrupt(speaking, flag, elapsed) == flag

\* lines 331-333: whether the loop is left (elapsed: more than 28 s have passed)
wait_over(speaking, flag, elapsed) == ~(speaking /\ ~flag) \/ elapsed

\* lines 330-334: the wait ends when is_speaking is clear, when interrupt_flag
\* is set, or after 28 seconds
MainWait ==
    /\ UNCHANGED agentsVars
    /\ UNCHANGED answer
    /\ pc = "wait"
    /\ \E elapsed \in BOOLEAN : wait_over(is_speaking, interrupt_flag, elapsed)
    /\ pc' = "after_wait"
    /\ UNCHANGED <<turn, silence_count, conversation, sentences, i,
                   interrupted, cycle, tts_queue, interrupt_flag, is_speaking,
                   wpc, cur, mpc, heard, nenq, played, dropped>>

\* lines 336-340
MainAfterWait ==
    /\ UNCHANGED agentsVars
    /\ UNCHANGED answer
    /\ pc = "after_wait"
    /\ IF interrupt_flag
       THEN interrupted' = TRUE /\ pc' = "after_for" /\ UNCHANGED i
       ELSE i' = i + 1 /\ pc' = "for" /\ UNCHANGED interrupted
    /\ UNCHANGED <<turn, silence_count, conversation, sentences, cycle,
                   tts_queue, interrupt_flag, is_speaking, wpc, cur, mpc,
                   heard, nenq, played, dropped>>

\* the last 11 entries kept, the system turn not put back in front
trim_drop_system(conv) ==
    IF Len(conv) > 11
    THEN SubSeq(conv, Len(conv) - 10, Len(conv))
    ELSE conv

\* the system turn and the last 11 entries kept
trim_keep_eleven(conv) ==
    IF Len(conv) > 11
    THEN <<conv[1]>> \o SubSeq(conv, Len(conv) - 10, Len(conv))
    ELSE conv

\* lines 349-350
trim(conv) ==
    IF Len(conv) > 11
    THEN <<conv[1]>> \o SubSeq(conv, Len(conv) - 9, Len(conv))
    ELSE conv

\* lines 342-350: after the for loop.  pc = "ack_wait" is the loop of lines
\* 344-345.
MainAfterFor ==
    /\ UNCHANGED agentsVars
    /\ UNCHANGED answer
    /\ pc \in {"after_for", "ack_wait"}
    /\ IF pc = "after_for" /\ interrupted
       THEN /\ Speak(Item(ACKNOWLEDGE, "acknowledge", 0, 0))
            /\ pc' = "ack_wait"
            /\ UNCHANGED conversation
       ELSE /\ pc = "ack_wait" => ~is_speaking
            /\ conversation' = trim(conversation)
            /\ pc' = "listen"
            /\ NoSpeak
    /\ UNCHANGED <<turn, silence_count, sentences, i, interrupted, cycle,
                   interrupt_flag, is_speaking, wpc, cur, mpc, heard, played, dropped>>

\* line 357
MainShutdown ==
    /\ UNCHANGED agentsVars
    /\ UNCHANGED answer
    /\ pc = "shutdown"
    /\ tts_queue' = Append(tts_queue, None)
    /\ pc' = "join"
    /\ UNCHANGED <<turn, silence_count, conversation, sentences, i,
                   interrupted, cycle, interrupt_flag, is_speaking, wpc, cur,
                   mpc, heard, nenq, played, dropped>>

\* line 358: join(timeout=5) returns when the worker has ended or after five
\* seconds; main() then returns and the process ends.
MainJoin ==
    /\ UNCHANGED agentsVars
    /\ UNCHANGED answer
    /\ pc = "join"
    /\ \E timed_out \in BOOLEAN : wpc \in {"done", "crashed"} \/ timed_out
    /\ pc' = "exited"
    /\ UNCHANGED <<turn, silence_count, conversation, sentences, i,
                   interrupted, cycle, tts_queue, interrupt_flag, is_speaking,
                   wpc, cur, mpc, heard, nenq, played, dropped>>

\* ------------------------------------------------------- 5. tts_worker()
\* tts_queue.get(): the oldest item
queue_get(q) == Head(q)

\* lines 140-142: take the next item; the sentinel ends the thread
WorkerGet ==
    /\ UNCHANGED agentsVars
    /\ Running
    /\ wpc = "get"
    /\ tts_queue # <<>>
    /\ cur' = queue_get(tts_queue)
    /\ tts_queue' = Tail(tts_queue)
    /\ wpc' = IF cur' = None THEN "done" ELSE "check"
    /\ UNCHANGED <<mainVars, interrupt_flag, is_speaking, mpc, heard, nenq,
                   played, dropped>>

\* lines 143-149: skip the item when interrupt_flag is set, otherwise set
\* is_speaking and hand the sentence to the engine
WorkerSay ==
    /\ UNCHANGED agentsVars
    /\ Running
    /\ wpc = "check"
    /\ IF interrupt_flag
       THEN /\ wpc' = "get"
            /\ cur' = NoItem
            /\ dropped' = dropped \cup {cur.seq}
            /\ UNCHANGED <<is_speaking, played>>
       ELSE /\ is_speaking' = TRUE
            /\ played' = Append(played,
                   [seq |-> cur.seq, kind |-> cur.kind, cyc |-> cur.cyc,
                    idx |-> cur.idx, outcome |-> "playing"])
            /\ wpc' = "play"
            /\ UNCHANGED <<cur, dropped>>
    /\ UNCHANGED <<mainVars, tts_queue, interrupt_flag, mpc, heard, nenq>>

\* How the playback loop of lines 150-158 can end: the engine is no longer
\* busy ("finished"), 25 seconds have passed ("cap"), the engine raised
\* ("error"), or interrupt_flag was seen set ("cancelled").
PlayOutcomes(flag) ==
    {"finished", "cap", "error"} \cup (IF flag THEN {"cancelled"} ELSE {})

\* is_speaking left set when the engine raised (no finally clause)
speaking_after_nofinally(outcome) == outcome = "error"

\* is_speaking left set after a unit that ended normally
speaking_after_held(outcome) == outcome = "finished"

\* lines 159-160: the finally clause clears is_speaking however the unit ended
speaking_after(outcome) == FALSE

\* lines 150-161: the end of one unit; an exception leaves through the two
\* finally clauses and ends the thread
WorkerPlay ==
    /\ UNCHANGED agentsVars
    /\ Running
    /\ wpc = "play"
    /\ \E outcome \in PlayOutcomes(interrupt_flag) :
         /\ played' = [played EXCEPT ![Len(played)].outcome = outcome]
         /\ wpc' = IF outcome = "error" THEN "crashed" ELSE "get"
         /\ is_speaking' = speaking_after(outcome)
    /\ cur' = NoItem
    /\ UNCHANGED <<mainVars, tts_queue, interrupt_flag, mpc, heard, nenq,
                   dropped>>

\* ------------------------------------------------ 6. interrupt monitor
\* a detection routine whose line 198 only lowers and strips the text
check_for_interrupt_matching(h) ==
    h.err = "none" /\
    \E phrase \in INTERRUPT_PHRASES : contains(strip(lower(h.text)), phrase)

\* a detection routine that takes a failed capture for an interruption
check_for_interrupt_on_error(h) == h.err # "none"

\* check_for_interrupt(), lines 192-211, on what the capture window yields.
\* Line 198 calls .agricultura() on the lowered text; str has no such method,
\* the AttributeError is not an UnknownValueError and is caught by the
\* handler of line 208, which returns False.
check_for_interrupt(h) ==
    IF h.err # "none"
    THEN FALSE
    ELSE LET lowered == lower(h.text) IN
         IF "agricultura" \notin StrMethods
         THEN FALSE
         ELSE LET text == strip(lowered) IN
              \E phrase \in INTERRUPT_PHRASES : contains(text, phrase)

\* clear_speech_queue(), lines 173-179: one iteration of its loop
clear_speech_queue_step(q) == Tail(q)

\* a monitor that samples whether or not anything is being said
sleeps_never(speaking) == FALSE

\* line 215: nothing is being said, the monitor sleeps and tries again
sleeps(speaking) == ~speaking

\* a loop test that lets the last item be
empty_but_one(q) == Len(q) <= 1

\* tts_queue.empty(), line 174
empty(q) == q = <<>>

\* interrupt_monitor(), lines 213-223, one step of monitor thread w:
\*   "loop"   the while test and the is_speaking test (lines 214-217); when
\*            is_speaking is set the thread enters check_for_interrupt and
\*            its capture window opens
\*   "check"  the window closes with what was heard, check_for_interrupt
\*            returns (lines 218-219, 223)
\*   "drain"  clear_speech_queue and the return (lines 220-222)
interrupt_monitor(w) ==
    /\ UNCHANGED agentsVars
    /\ Running
    /\ mpc[w] \in {"loop", "check", "drain"}
    /\ CASE mpc[w] = "loop" ->
              /\ IF interrupt_flag
                 THEN mpc' = [mpc EXCEPT ![w] = "done"]
                 ELSE IF sleeps(is_speaking)
                      THEN UNCHANGED mpc
                      ELSE mpc' = [mpc EXCEPT ![w] = "check"]
              /\ UNCHANGED <<interrupt_flag, tts_queue, heard, dropped>>
         [] mpc[w] = "check" ->
              /\ \E h \in MonitorHeard :
                   /\ heard' = h
                   /\ IF check_for_interrupt(h)
                      THEN /\ interrupt_flag' = TRUE
                           /\ mpc' = [mpc EXCEPT ![w] = "drain"]
                      ELSE /\ mpc' = [mpc EXCEPT ![w] = "loop"]
                           /\ UNCHANGED interrupt_flag
              /\ UNCHANGED <<tts_queue, dropped>>
         [] mpc[w] = "drain" ->
              /\ IF empty(tts_queue)
                 THEN /\ mpc' = [mpc EXCEPT ![w] = "done"]
                      /\ UNCHANGED <<tts_queue, dropped>>
                 ELSE /\ tts_queue' = clear_speech_queue_step(tts_queue)
                      /\ dropped' = dropped \cup {Head(tts_queue).seq}
                      /\ UNCHANGED mpc
              /\ UNCHANGED <<interrupt_flag, heard>>
    /\ UNCHANGED <<mainVars, is_speaking, workerVars, nenq>>

\* ------------------------------------------------------------ the system
Next ==
    \/ MainStart
    \/ MainListen
    \/ MainThink
    \/ MainFor
    \/ MainSpeak
    \/ MainWait
    \/ MainAfterWait
    \/ MainAfterFor
    \/ MainShutdown
    \/ MainJoin
    \/ WorkerGet
    \/ WorkerSay
    \/ WorkerPlay
    \/ \E w \in Monitors : interrupt_monitor(w)

Spec == Init /\ [][Next]_vars

\* The threads are scheduled by the operating system: each of them keeps
\* taking steps as long as it has one to take.
MainNext ==
    \/ MainStart \/ MainListen \/ MainThink \/ MainFor \/ MainSpeak \/ MainWait
    \/ MainAfterWait \/ MainAfterFor \/ MainShutdown \/ MainJoin

WorkerNext == WorkerGet \/ WorkerSay \/ WorkerPlay

FairSpec ==
    /\ Spec
    /\ WF_vars(MainNext)
    /\ WF_vars(WorkerNext)
    /\ \A w \in Monitors : WF_vars(interrupt_monitor(w))

\* The session thread alone, over more captures: the behaviours in which the
\* worker and the monitors take no step.  The history is read and written by
\* main() only and no step of main() waits for another thread (the wait of
\* lines 331-334 ends when is_speaking is clear or after 28 seconds), so every
\* history the program can reach within MaxSessionTurns captures is reached.
SessionListen == Listen(MaxSessionTurns)

SessionNext ==
    \/ MainStart
    \/ SessionListen
    \/ MainThink
    \/ MainFor
    \/ MainSpeak
    \/ MainWait
    \/ MainAfterWait
    \/ MainAfterFor
    \/ MainShutdown
    \/ MainJoin

SpecSession == Init /\ [][SessionNext]_vars

\* speak() on its own: called once with any sentence on any queue of at most
\* MaxQueue sentences, with and without the sentinel of line 357 behind them.
Utterances == {<<>>, <<" ">>, <<"h", "i">>, <<"O", "k", ".">>}

QueuedAt(text, k) ==
    [text |-> text, kind |-> "reply", seq |-> k, cyc |-> 0, idx |-> k]

\* the queues of at most MaxQueue sentences, as they are (Open) and with the
\* sentinel put behind them by line 357 (Closed)
OpenQueues ==
    UNION {{[k \in 1..n |-> QueuedAt(f[k], k)] :
              f \in [1..n -> {<<"h", "i">>, <<"O", "k", ".">>}]}
             : n \in 0..MaxQueue}

ClosedQueues == {Append(q, None) : q \in OpenQueues}

Queues == OpenQueues \cup ClosedQueues

InitSpeak ==
    /\ InitAgents
    /\ pc = "call"
    /\ tts_queue \in Queues
    /\ nenq = Cardinality({k \in 1..Len(tts_queue) : tts_queue[k] # None})
    /\ turn = 0 /\ silence_count = 0 /\ conversation = <<SystemTurn>>
    /\ sentences = <<>> /\ i = 0 /\ interrupted = FALSE /\ answer = NoAnswer
    /\ cycle = 0 /\ interrupt_flag = FALSE /\ is_speaking = FALSE
    /\ wpc = "get" /\ cur = NoItem /\ mpc = [w \in Monitors |-> "unborn"]
    /\ heard = NoAudio /\ played = <<>> /\ dropped = {}

\* lines 168-171
SpeakCall ==
    /\ UNCHANGED agentsVars
    /\ pc = "call"
    /\ \E sentence \in Utterances : Speak(Item(sentence, "reply", 0, 0))
    /\ pc' = "returned"
    /\ UNCHANGED <<turn, silence_count, conversation, sentences, i,
                   interrupted, answer, cycle, interrupt_flag, is_speaking,
                   wpc, cur, mpc, heard, played, dropped>>

SpecSpeak == InitSpeak /\ [][SpeakCall]_vars

\* clear_speech_queue() on its own: called twice in a row by one thread, on
\* any queue of at most MaxQueue sentences, while the worker is waiting on the
\* queue ("get"), has just taken an item off it ("check") or is saying one
\* ("play").  Nothing is enqueued meanwhile.
InHand == [text |-> <<"h", "i">>, kind |-> "reply", seq |-> 0, cyc |-> 0, idx |-> 0]

InitClear ==
    /\ InitAgents
    /\ pc = "clear1"
    /\ tts_queue \in Queues
    /\ nenq = Cardinality({k \in 1..Len(tts_queue) : tts_queue[k] # None})
    /\ interrupt_flag \in BOOLEAN
    /\ wpc \in {"get", "check", "play"}
    /\ cur = IF wpc = "get" THEN NoItem ELSE InHand
    /\ is_speaking = (wpc = "play")
    /\ played = IF wpc = "play"
                THEN <<[seq |-> 0, kind |-> "reply", cyc |-> 0, idx |-> 0,
                        outcome |-> "playing"]>>
                ELSE <<>>
    /\ turn = 0 /\ silence_count = 0 /\ conversation = <<SystemTurn>>
    /\ sentences = <<>> /\ i = 0 /\ interrupted = FALSE /\ answer = NoAnswer
    /\ cycle = 0 /\ mpc = [w \in Monitors |-> "unborn"]
    /\ heard = NoAudio /\ dropped = {}

\* lines 173-179: one iteration of the loop, or its end; the first call is
\* followed at once by the second
clear_speech_queue ==
    /\ UNCHANGED agentsVars
    /\ pc \in {"clear1", "clear2"}
    /\ IF empty(tts_queue)
       THEN /\ pc' = IF pc = "clear1" THEN "clear2" ELSE "returned"
            /\ UNCHANGED <<tts_queue, dropped>>
       ELSE /\ tts_queue' = clear_speech_queue_step(tts_queue)
            /\ dropped' = dropped \cup {Head(tts_queue).seq}
            /\ UNCHANGED pc
    /\ UNCHANGED <<turn, silence_count, conversation, sentences, i,
                   interrupted, answer, cycle, interrupt_flag, is_speaking,
                   wpc, cur, mpc, heard, nenq, played>>

NextClear == clear_speech_queue \/ WorkerGet \/ WorkerSay \/ WorkerPlay

SpecClear ==
    /\ InitClear
    /\ [][NextClear]_vars
    /\ WF_vars(clear_speech_queue)
    /\ WF_vars(WorkerNext)

\* split_into_sentences() on its own: applied once to any text of at most
\* MaxLen characters, each a letter, a terminator or a blank.
Texts == UNION {[1..n -> {"a", ".", " "}] : n \in 0..MaxLen}

InitSplit ==
    /\ InitAgents
    /\ pc = "split"
    /\ answer \in {[none |-> FALSE, text |-> t] : t \in Texts}
    /\ sentences = <<>>
    /\ turn = 0 /\ silence_count = 0 /\ conversation = <<SystemTurn>>
    /\ i = 0 /\ interrupted = FALSE /\ cycle = 0
    /\ tts_queue = <<>> /\ interrupt_flag = FALSE /\ is_speaking = FALSE
    /\ wpc = "get" /\ cur = NoItem /\ mpc = [w \in Monitors |-> "unborn"]
    /\ heard = NoAudio /\ nenq = 0 /\ played = <<>> /\ dropped = {}

\* sentences = split_into_sentences(answer), as at line 315
SplitCall ==
    /\ UNCHANGED agentsVars
    /\ pc = "split"
    /\ sentences' = split_into_sentences(answer.text)
    /\ pc' = "split_done"
    /\ UNCHANGED <<turn, silence_count, conversation, i, interrupted, answer,
                   cycle, tts_queue, interrupt_flag, is_speaking, wpc, cur,
                   mpc, heard, nenq, played, dropped>>

SpecSplit == InitSplit /\ [][SplitCall]_vars

\* ------------------------------------------- agents/audio_player.py
\* One AudioPlayer and one thread that calls play() and stop() on it, at most
\* MaxCalls times; the player processes end when their file is over
\* (-autoexit, --play-and-exit) or when stop() terminates them.
Urls == {"hymn.mp3", "sermon.mp3"}

\* play(), lines 278-293: the order of preference
Backends == <<"ffplay", "vlc", "mpg123", "system">>

\* play() going from ffplay straight to mpg123
fallback_skip_vlc(b) == IF b = 1 THEN 3 ELSE b + 1

\* play(), lines 280-293: a backend that returned False is followed by the next
fallback(b) == b + 1

Started == {p \in 1..MaxCalls : procs[p] # "unborn"}

\* what a call that returns leaves in the caller's history
Returns(op, ret) ==
    [op |-> op, async_mode |-> client.async_mode, ret |-> ret]

\* play(), lines 268-273: the lock is taken; if the flag is set, stop() is
\* called inside the with block
PlayEnter ==
    /\ client.pc = "idle"
    /\ Len(client.calls) < MaxCalls
    /\ player.lock = "free"
    /\ \E url \in Urls, async_mode \in BOOLEAN :
         IF player.is_playing_flag
         THEN /\ client' = [client EXCEPT !.pc = "stop", !.url = url,
                                          !.async_mode = async_mode,
                                          !.backend = 0, !.tried = <<>>]
              /\ player' = [player EXCEPT !.lock = "client"]
         ELSE /\ client' = [client EXCEPT !.pc = "try", !.url = url,
                                          !.async_mode = async_mode,
                                          !.backend = 1, !.tried = <<>>]
              /\ player' = [player EXCEPT !.lock = "client",
                                          !.current_url = url]
    /\ UNCHANGED <<procs, monitors, timers, agent, chatVars>>

\* stop(), lines 298-313, called by the client thread (pc = "idle") or by
\* play() at line 271 (pc = "stop"); with self._lock waits until the lock is
\* free, and threading.Lock is not reentrant
stop ==
    /\ client.pc \in {"idle", "stop"}
    /\ client.pc = "idle" => Len(client.calls) < MaxCalls
    /\ player.lock = "free"
    /\ LET running == player.process # 0 /\ procs[player.process] = "running"
       IN  /\ procs' = IF running
                       THEN [procs EXCEPT ![player.process] = "exited"]
                       ELSE procs
           /\ IF client.pc = "idle"
              THEN /\ player' = [player EXCEPT
                                   !.process = IF running THEN 0 ELSE @,
                                   !.is_playing_flag = FALSE,
                                   !.current_url = Missing,
                                   !.player_type = Missing]
                   /\ client' = [client EXCEPT
                                   !.calls = Append(@, [op |-> "stop",
                                                        async_mode |-> FALSE,
                                                        ret |-> "None"])]
              ELSE \* back in play(), line 273
                   /\ player' = [player EXCEPT
                                   !.process = IF running THEN 0 ELSE @,
                                   !.is_playing_flag = FALSE,
                                   !.current_url = client.url,
                                   !.player_type = Missing]
                   /\ client' = [client EXCEPT !.pc = "try", !.backend = 1]
    /\ UNCHANGED <<monitors, timers, agent, chatVars>>

\* _play_with_ffplay, _play_with_vlc, _play_with_mpg123 (lines 106-220) and
\* _play_with_system (lines 222-248), as called by play() at lines 280-296:
\* the backend is missing, or starting it raises, or it starts
PlayTry ==
    /\ client.pc = "try"
    /\ LET b == client.backend
           name == Backends[b]
           failed == Append(client.tried, [backend |-> name, ok |-> FALSE])
           worked == Append(client.tried, [backend |-> name, ok |-> TRUE])
           pid == Cardinality(Started) + 1
       IN  \E outcome \in IF b < 4 /\ name \notin player.paths
                          THEN {"missing"}
                          ELSE {"raises", "started"} :
             CASE outcome # "started" /\ b < 4 ->
                    /\ client' = [client EXCEPT !.backend = fallback(b),
                                                !.tried = failed]
                    /\ UNCHANGED <<player, procs, monitors, timers>>
               [] outcome # "started" /\ b = 4 ->
                    \* lines 295-296
                    /\ client' = [client EXCEPT
                                    !.pc = "idle", !.tried = failed,
                                    !.calls = Append(@, Returns("play", "False"))]
                    /\ player' = [player EXCEPT !.lock = "free"]
                    /\ UNCHANGED <<procs, monitors, timers>>
               [] outcome = "started" /\ b < 4 ->
                    /\ procs' = [procs EXCEPT ![pid] = "running"]
                    /\ IF client.async_mode
                       THEN /\ monitors' = [monitors EXCEPT
                                              ![pid] = [pc |-> "test",
                                                        target |-> 0]]
                            /\ player' = [player EXCEPT
                                            !.process = pid,
                                            !.player_type = name,
                                            !.is_playing_flag = TRUE,
                                            !.lock = "free"]
                            /\ client' = [client EXCEPT
                                            !.pc = "idle", !.tried = worked,
                                            !.calls = Append(@,
                                                Returns("play", "True"))]
                       ELSE /\ player' = [player EXCEPT
                                            !.process = pid,
                                            !.player_type = name,
                                            !.is_playing_flag = TRUE]
                            /\ client' = [client EXCEPT !.pc = "wait",
                                                        !.tried = worked]
                            /\ UNCHANGED monitors
                    /\ UNCHANGED timers
               [] outcome = "started" /\ b = 4 ->
                    /\ timers' = timers + 1
                    /\ player' = [player EXCEPT !.player_type = name,
                                                !.is_playing_flag = TRUE,
                                                !.lock = "free"]
                    /\ client' = [client EXCEPT
                                    !.pc = "idle", !.tried = worked,
                                    !.calls = Append(@, Returns("play", "True"))]
                    /\ UNCHANGED <<procs, monitors>>
    /\ UNCHANGED <<agent, chatVars>>

\* lines 145-148 (182-185, 213-216): async_mode is False
PlayWait ==
    /\ client.pc = "wait"
    /\ procs[player.process] = "exited"
    /\ player' = [player EXCEPT !.is_playing_flag = FALSE, !.lock = "free"]
    /\ client' = [client EXCEPT !.pc = "idle",
                                !.calls = Append(@, Returns("play", "True"))]
    /\ UNCHANGED <<procs, monitors, timers, agent, chatVars>>

\* the player process reaches the end of its file
ProcessExit(p) ==
    /\ procs[p] = "running"
    /\ procs' = [procs EXCEPT ![p] = "exited"]
    /\ UNCHANGED <<player, client, monitors, timers, agent, chatVars>>

\* _monitor_process, lines 250-255, in the thread started for playback p:
\* self.process is read at line 252 and again at line 253, the wait is for
\* the process read at line 253, and line 254 follows it
MonitorStep(p) ==
    /\ CASE monitors[p].pc = "test" ->
              /\ monitors' = [monitors EXCEPT
                                ![p].pc = IF player.process # 0
                                          THEN "deref" ELSE "done"]
              /\ UNCHANGED player
         [] monitors[p].pc = "deref" ->
              /\ monitors' = [monitors EXCEPT
                                ![p] = IF player.process # 0
                                       THEN [pc |-> "wait",
                                             target |-> player.process]
                                       ELSE [pc |-> "crashed", target |-> 0]]
              /\ UNCHANGED player
         [] monitors[p].pc = "wait" ->
              /\ procs[monitors[p].target] = "exited"
              /\ monitors' = [monitors EXCEPT ![p].pc = "done"]
              /\ player' = [player EXCEPT !.is_playing_flag = FALSE]
         [] OTHER -> FALSE
    /\ UNCHANGED <<client, procs, timers, agent, chatVars>>

\* mark_finished, lines 238-240
MarkFinished ==
    /\ timers > 0
    /\ timers' = timers - 1
    /\ player' = [player EXCEPT !.is_playing_flag = FALSE]
    /\ UNCHANGED <<client, procs, monitors, agent, chatVars>>

\* the chat is not running
ChatIdle ==
    /\ pc = "start" /\ turn = 0 /\ silence_count = 0 /\ conversation = <<>>
    /\ sentences = <<>> /\ i = 0 /\ interrupted = FALSE /\ answer = NoAnswer
    /\ cycle = 0 /\ tts_queue = <<>> /\ interrupt_flag = FALSE
    /\ is_speaking = FALSE /\ wpc = "get" /\ cur = NoItem
    /\ mpc = [w \in Monitors |-> "unborn"] /\ heard = NoAudio /\ nenq = 0
    /\ played = <<>> /\ dropped = {}

\* any of the dedicated players may be installed
InitPlayerAny ==
    /\ ChatIdle
    /\ \E paths \in SUBSET {"ffplay", "vlc", "mpg123"} : InitPlayer(paths)
    /\ agent = NoCall

NextPlayer ==
    \/ PlayEnter
    \/ stop
    \/ PlayTry
    \/ PlayWait
    \/ \E p \in 1..MaxCalls : ProcessExit(p)
    \/ \E p \in 1..MaxCalls : MonitorStep(p)
    \/ MarkFinished

SpecPlayer == InitPlayerAny /\ [][NextPlayer]_vars

\* ------------------------------------------ agents/response_schema.py
\* ResponseType and ActionType, lines 12-26, by value
ResponseTypes == {"chat", "hymn", "sermon", "error", "clarification"}
ActionTypes == {"speak", "play", "both", "none"}

\* Confidences are counted in hundredths: 85 is 0.85.
Confidences == {0 - 1, 0, 50, 100, 101}

\* a raise statement reached: no object is returned
Raise(error) == [raised |-> TRUE, error |-> error, value |-> [none |-> TRUE]]
Return(value) == [raised |-> FALSE, error |-> Missing, value |-> value]

\* line 96 asking for a URL when the action is PLAY only
requires_url_play_only(action) == action = "play"

\* line 96: self.action in (ActionType.PLAY, ActionType.BOTH)
requires_url(action) == action \in {"play", "both"}

\* AgentResponse(...): the generated __init__ and __post_init__, lines 83-97;
\* ResponseType(s) and ActionType(s) raise ValueError for a string that is
\* not the value of a member
AgentResponse(f) ==
    IF f.type \notin ResponseTypes \/ f.action \notin ActionTypes
    THEN Raise("ValueError")
    ELSE IF ~(0 <= f.confidence /\ f.confidence <= 100)
    THEN Raise("ValueError")
    ELSE IF requires_url(f.action) /\ falsy(f.url)
    THEN Raise("ValueError")
    ELSE Return(f)

\* the fields of an AgentResponse with their defaults, lines 62-81; metadata
\* stands for the AudioMetadata, by its title
Fields(success, type, url, confidence, action) ==
    [success |-> success, type |-> type, url |-> url, metadata |-> Missing,
     confidence |-> confidence, action |-> action, alternatives |-> <<>>,
     error_code |-> Missing]

\* lines 118-126
chat_response(confidence) ==
    AgentResponse(Fields(TRUE, "chat", Missing, confidence, "speak"))

\* lines 129-153
hymn_response(url, title, confidence, alternatives) ==
    AgentResponse([Fields(TRUE, "hymn", url, confidence, "both")
                     EXCEPT !.metadata = title,
                            !.alternatives = alternatives])

\* lines 156-181
sermon_response(url, title, confidence) ==
    AgentResponse([Fields(TRUE, "sermon", url, confidence, "both")
                     EXCEPT !.metadata = title])

\* lines 184-198
error_response(error_code) ==
    AgentResponse([Fields(FALSE, "error", Missing, 0, "speak")
                     EXCEPT !.error_code = error_code])

\* lines 201-213
clarification_response(alternatives) ==
    AgentResponse([Fields(TRUE, "clarification", Missing, 50, "speak")
                     EXCEPT !.alternatives = alternatives])

\* A response is built once, directly or by one of the factories, from any
\* combination of these values.
ResponseArgs ==
    [success : BOOLEAN, type : {"chat", "hymn", "bogus"},
     url : {Missing, "", "a.mp3"}, confidence : Confidences,
     action : ActionTypes \cup {"bogus"}]

InitResponse ==
    /\ ChatIdle
    /\ InitPlayer({})
    /\ agent \in {[pc |-> "call", fn |-> "-", args |-> a, result |-> Raise("-")]
                    : a \in ResponseArgs}

\* the call returns or raises
Called(fn, result) ==
    /\ agent.pc = "call"
    /\ agent' = [agent EXCEPT !.pc = "returned", !.fn = fn, !.result = result]
    /\ UNCHANGED <<playerVars, chatVars>>

Construct ==
    Called("AgentResponse",
           AgentResponse(Fields(agent.args.success, agent.args.type,
                                agent.args.url, agent.args.confidence,
                                agent.args.action)))

ChatResponse == Called("chat_response", chat_response(agent.args.confidence))

HymnResponse ==
    Called("hymn_response",
           hymn_response(agent.args.url, "Abide", agent.args.confidence, <<>>))

SermonResponse ==
    Called("sermon_response",
           sermon_response(agent.args.url, "Grace", agent.args.confidence))

ErrorResponse == Called("error_response", error_response("EMPTY_QUERY"))

ClarificationResponse ==
    Called("clarification_response", clarification_response(<<>>))

NextResponse ==
    \/ Construct
    \/ ChatResponse
    \/ HymnResponse
    \/ SermonResponse
    \/ ErrorResponse
    \/ ClarificationResponse

SpecResponse == InitResponse /\ [][NextResponse]_vars

\* ---------------------------------------------- agents/sermon_lib.py
\* An optional string: None, or the text.
Nothing == [none |-> TRUE, text |-> <<>>]
Just(text) == [none |-> FALSE, text |-> text]

\* stands for "SermonAudio" in the pattern of line 256
SITE_NAME == <<"S", "n">>

\* the pattern \s*[-|]\s*SermonAudio.*$ (re.I) matches from character p + 1
\* of the title on
SuffixAt(title, p) ==
    \E a \in p..Len(title), b \in (p + 1)..Len(title) :
       /\ a < b
       /\ \A k \in (p + 1)..a : title[k] \in Whitespace
       /\ title[a + 1] \in {"-", "|"}
       /\ \A k \in (a + 2)..b : title[k] \in Whitespace
       /\ b + Len(SITE_NAME) <= Len(title)
       /\ lower(SubSeq(title, b + 1, b + Len(SITE_NAME))) = lower(SITE_NAME)

\* re.sub(r'\s*[-|]\s*SermonAudio.*$', '', title, flags=re.I), line 256: the
\* title is cut where the leftmost match begins
clean_title(title) ==
    LET cuts == {p \in 0..Len(title) : SuffixAt(title, p)}
    IN  IF cuts = {} THEN title
        ELSE SubSeq(title, 1, CHOOSE p \in cuts : \A q \in cuts : p <= q)

\* dict.get(key, default): the default is for a key that is not there
dict_get(dict, key, default) ==
    IF key \in DOMAIN dict THEN dict[key] ELSE default

\* extract_sermon_metadata, lines 42-48 and 96: the five keys are always
\* there, each None unless the page gave a value; search_sermonaudio keeps a
\* page only with an mp3_url (line 189)
Metadata ==
    [title : {Nothing, Just(<<"H">>), Just(<<"H", " ", "|", " ", "s", "N">>)},
     speaker : {Nothing, Just(<<"B", "n">>)},
     date : {Nothing, Just(<<"J", "a", "n">>)},
     topic : {Nothing},
     mp3_url : {"s1.mp3", "s2.mp3"}]

SermonResults == UNION {[1..n -> Metadata] : n \in 0..MaxResults}

SermonQueries ==
    {Nothing, Just(<<>>), Just(<<" ">>), Just(<<"b">>), Just(<<"h">>)}

\* search_sermon, lines 215-274, without filters; results is what
\* search_sermonaudio returns at line 243
search_sermon(query, results) ==
    IF ~truthy(query) \/ strip(query.text) = <<>>
    THEN error_response("EMPTY_QUERY")
    ELSE IF results = <<>>
    THEN error_response("SERMON_NOT_FOUND")
    ELSE LET best == results[1]
             title == dict_get(best, "title", Just(<<"U", "n">>))
             confidence ==
                 IF truthy(best.speaker)
                    /\ contains(lower(best.speaker.text), lower(query.text))
                 THEN 95 ELSE 85
         IN  IF title.none
             THEN Raise("TypeError")    \* re.sub on None, line 256
             ELSE sermon_response(best.mp3_url, clean_title(title.text),
                                  confidence)

InitSermon ==
    /\ ChatIdle
    /\ InitPlayer({})
    /\ agent \in {[pc |-> "call", fn |-> "-",
                   args |-> [query |-> q, results |-> r],
                   result |-> Raise("-")]
                    : q \in SermonQueries, r \in SermonResults}

SearchSermon ==
    Called("search_sermon",
           search_sermon(agent.args.query, agent.args.results))

SpecSermon == InitSermon /\ [][SearchSermon]_vars

\* ------------------------------------------------ agents/hymn_lib.py
\* PRIORITY.get(kind, 9), lines 31 and 143
PRIORITY(kind) ==
    CASE kind = "choir" -> 0
      [] kind = "band" -> 1
      [] kind = "piano" -> 2
      [] kind = "organ" -> 3
      [] kind = "instrumental" -> 4
      [] OTHER -> 9

\* search_hymn taking the results in the order the sources gave them
prioritize_unsorted(results) == results

\* prioritize_results, lines 141-143: sorted() is stable
prioritize_results(results) ==
    LET place(j) ==
            Cardinality({k \in 1..Len(results) :
                           \/ PRIORITY(results[k].kind) < PRIORITY(results[j].kind)
                           \/ /\ PRIORITY(results[k].kind) = PRIORITY(results[j].kind)
                              /\ k <= j})
    IN  [p \in 1..Len(results) |->
           results[CHOOSE j \in 1..Len(results) : place(j) = p]]

\* the names of the files found, by source and position: deduplicate (lines
\* 146-154) leaves no URL twice within a source, and nothing keeps the two
\* online sources from listing the same file (shared)
FileNames == <<"1.mp3", "2.mp3", "3.mp3", "4.mp3", "5.mp3">>
ArchiveNames == <<"a1.mp3", "a2.mp3", "a3.mp3", "a4.mp3", "a5.mp3">>
LocalNames == <<"/h/1.mp3", "/h/2.mp3", "/h/3.mp3", "/h/4.mp3", "/h/5.mp3">>

\* search_small_church, lines 190-197
ScmResult(k, kind) ==
    [title |-> "Abide", url |-> FileNames[k], kind |-> kind,
     source |-> "SmallChurchMusic"]

\* search_archive, lines 227-233
ArchiveResult(k, kind, shared) ==
    [title |-> "Abide", url |-> IF shared /\ k = 1 THEN FileNames[1]
                                ELSE ArchiveNames[k],
     kind |-> kind, source |-> "Archive:Baptist Music"]

\* search_local_hymns, lines 295-302
LocalResult(k, score) ==
    [title |-> "abide.mp3", url |-> LocalNames[k], kind |-> "instrumental",
     source |-> "Local File", score |-> score, path |-> LocalNames[k]]

ScmResults ==
    UNION {{[k \in 1..n |-> ScmResult(k, f[k])] :
              f \in [1..n -> {"piano", "instrumental"}]} : n \in 0..MaxHits}

ArchiveResults ==
    UNION {{[k \in 1..n |-> ArchiveResult(k, f[k], shared)] :
              f \in [1..n -> {"organ", "instrumental"}], shared \in BOOLEAN}
             : n \in 0..MaxHits}

\* search_local_hymns returns its candidates best score first (line 309);
\* scores are in hundredths and at least 0.35 (line 291)
LocalResults ==
    UNION {{[k \in 1..n |-> LocalResult(k, f[k])] :
              f \in {g \in [1..n -> {50, 100}] :
                       \A k \in 1..(n - 1) : g[k] >= g[k + 1]}}
             : n \in 0..MaxHits}

HymnQueries == {Just(<<" ">>), Just(<<"h">>)}

Preferences == {Missing, "instrumental"}

Min(a, b) == IF a < b THEN a ELSE b

\* search_hymn, lines 318-397; scm, arc and local are what
\* search_small_church, search_archive and search_local_hymns return when
\* they are called; consulted lists the ones that were
search_hymn(query, prefer_kind, scm, arc, local) ==
    IF ~truthy(query) \/ strip(query.text) = <<>>
    THEN [result |-> error_response("EMPTY_QUERY"), consulted |-> <<>>]
    ELSE
    LET good == \E k \in 1..Len(scm) :
                   scm[k].kind \in {"choir", "band", "piano", "organ"}
        online == IF good THEN prioritize_results(scm)
                  ELSE prioritize_results(scm \o arc)
        consulted == <<"scm">> \o (IF good THEN <<>> ELSE <<"archive">>)
                              \o (IF online = <<>> THEN <<"local">> ELSE <<>>)
        found == IF online = <<>> THEN local ELSE online
    IN  IF found = <<>>
        THEN [result |-> error_response("HYMN_NOT_FOUND"),
              consulted |-> consulted]
        ELSE
        LET preferred == SelectSeq(found, LAMBDA r : r.kind = prefer_kind)
            others == SelectSeq(found, LAMBDA r : r.kind # prefer_kind)
            all_results == IF ~falsy(prefer_kind) /\ preferred # <<>>
                           THEN preferred \o others ELSE found
            top_results == SubSeq(all_results, 1, Min(5, Len(all_results)))
            best == top_results[1]
            base == IF best.source # "Local File" THEN 90 ELSE 95
            confidence == IF "score" \in DOMAIN best /\ best.score < 70
                          THEN (base * 80) \div 100 ELSE base
            alternatives ==
                [k \in 1..(Len(top_results) - 1) |->
                   [title |-> top_results[k + 1].title,
                    url |-> top_results[k + 1].url,
                    kind |-> top_results[k + 1].kind,
                    source |-> top_results[k + 1].source]]
        IN  [result |-> hymn_response(best.url, best.title, confidence,
                                      alternatives),
             consulted |-> consulted]

InitHymn ==
    /\ ChatIdle
    /\ InitPlayer({})
    /\ agent \in {[pc |-> "call", fn |-> "-",
                   args |-> [query |-> q, prefer_kind |-> p, scm |-> s,
                             arc |-> a, local |-> l],
                   result |-> Raise("-"), consulted |-> <<>>]
                    : q \in HymnQueries, p \in Preferences, s \in ScmResults,
                      a \in ArchiveResults, l \in LocalResults}

SearchHymn ==
    /\ agent.pc = "call"
    /\ LET out == search_hymn(agent.args.query, agent.args.prefer_kind,
                              agent.args.scm, agent.args.arc, agent.args.local)
       IN  agent' = [agent EXCEPT !.pc = "returned", !.fn = "search_hymn",
                                  !.result = out.result,
                                  !.consulted = out.consulted]
    /\ UNCHANGED <<playerVars, chatVars>>

SpecHymn == InitHymn /\ [][SearchHymn]_vars

\* ------------------------------------------------------------ properties
\* interrupt_flag is set at line 219 only, after check_for_interrupt returned
\* True, which it never does: the flag is clear in every reachable state, and
\* with it the branches of lines 143-145, 152-154, 220-222, 324-326, 336-338
\* and 343-345 are never taken.
Alive(w) == mpc[w] \in {"loop", "check", "drain"}

\* every item that was put on the queue and is still known: queued, in the
\* worker's hands, or said
KindSeen(kind) ==
    \/ \E k \in 1..Len(tts_queue) : tts_queue[k].kind = kind
    \/ cur.kind = kind
    \/ \E k \in 1..Len(played) : played[k].kind = kind

Finished(kind) ==
    \E k \in 1..Len(played) :
        played[k].kind = kind /\ played[k].outcome = "finished"

HasStopPhrase(text) ==
    \E phrase \in INTERRUPT_PHRASES : contains(strip(lower(text)), phrase)

\* C2: the worker starts the units in the order in which they were enqueued
\* (never reordered), and a unit is started only after the unit before it has
\* ended, so that at most one unit is being played at any time.
C2_FifoNoOverlap ==
    /\ \A a, b \in 1..Len(played) : a < b => played[a].seq < played[b].seq
    /\ \A a \in 1..(Len(played) - 1) : played[a].outcome # "playing"
    /\ is_speaking => /\ played # <<>>
                      /\ played[Len(played)].outcome = "playing"
                      /\ played[Len(played)].seq = cur.seq

\* C2 witness: both units of a two-unit reply have been played, after the
\* welcome.
C2_Witness ==
    \E a, b \in 1..Len(played) :
        /\ a < b
        /\ played[a].kind = "reply" /\ played[a].idx = 1
        /\ played[b].kind = "reply" /\ played[b].idx = 2
        /\ played[a].cyc = played[b].cyc
        /\ played[b].outcome = "finished"
        /\ played[1].kind = "welcome"

\* C3 (as claimed): when a monitor that saw is_speaking set obtains a
\* transcription whose lowered, trimmed text contains a stop phrase, it sets
\* interrupt_flag and leaves its watch loop for the drain.
C3_StopPhraseInterrupts ==
    [][\A w \in Monitors :
         (/\ mpc[w] = "check"
          /\ mpc'[w] # "check"
          /\ heard'.err = "none"
          /\ HasStopPhrase(heard'.text))
         => (interrupt_flag' /\ mpc'[w] \in {"drain", "done"})]_vars

C8_OneMonitorAlive ==
    /\ pc = "listen" => \A w \in Monitors : ~Alive(w)
    /\ Cardinality({w \in Monitors : Alive(w)}) <= 1

\* C9 (as claimed): while the worker plays a system announcement no monitor
\* has a capture window open, and no announcement is cancelled or skipped.
C9_AnnouncementsUnwatched ==
    /\ (wpc = "play" /\ cur.kind \in SystemKinds)
         => \A w \in Monitors : mpc[w] # "check"
    /\ \A k \in 1..Len(played) :
         played[k].kind \in SystemKinds => played[k].outcome # "cancelled"
    /\ wpc = "check" /\ cur.kind \in SystemKinds => ~interrupt_flag

\* C10 (as claimed): the farewell has been played to its end when the worker
\* takes the shutdown sentinel and when the process ends.
C10_FarewellPlayed ==
    /\ wpc = "done" => Finished("farewell")
    /\ pc = "exited" => Finished("farewell")

\* the units of reply cycle c that the engine has been asked to say and that
\* have ended (whatever the outcome)
Ended(c, n) ==
    \E k \in 1..Len(played) :
        /\ played[k].kind = "reply" /\ played[k].cyc = c /\ played[k].idx = n
        /\ played[k].outcome # "playing"

\* C11 (as claimed): when the session goes from its for loop back to listening
\* with interrupt_flag clear, every unit of the reply has been played to its
\* end (none is still queued, in the worker's hands or being said).
C11_AllUnitsPlayed ==
    [][(pc = "after_for" /\ pc' = "listen" /\ ~interrupt_flag)
         => \A n \in 1..Len(sentences) : Ended(cycle, n)]_vars

\* C12 (as claimed): an error while a unit is synthesised or played leaves the
\* worker alive, ready to take the next queued unit.
C12_WorkerSurvivesError ==
    [][(wpc = "play" /\ played'[Len(played')].outcome = "error")
         => wpc' = "get"]_vars

Last(q) == q[Len(q)]

Playback == {"for", "speak", "wait", "after_wait", "after_for", "ack_wait"}

AssistantTurns(conv) == {k \in 1..Len(conv) : conv[k].role = "assistant"}

\* C14: when a non-empty reply is obtained the history grows by exactly the
\* assistant turn, holding the complete reply (the text whose units are then
\* spoken: nothing of it is outside the turn), directly after the user turn of
\* the same exchange; playback leaves the history alone (but for the eviction
\* on the way back to listening); and no other step adds an assistant turn.
C14_ReplyRecorded ==
    [][/\ (pc = "think" /\ pc' = "for")
            => /\ conversation' # <<>>
               /\ SubSeq(conversation', 1, Len(conversation') - 1) = conversation
               /\ Last(conversation).role = "user"
               /\ Last(conversation).turn = turn
               /\ Last(conversation').role = "assistant"
               /\ Last(conversation').turn = turn
               /\ Last(conversation').content # <<>>
               /\ sentences' # <<>>
               /\ split_into_sentences(Last(conversation').content) = sentences'
               /\ Len(conversation') = Len(conversation) + 1
       /\ (pc \in Playback)
            => \/ conversation' = conversation
               \/ /\ pc' = "listen"
                  /\ Len(conversation) > 11
                  /\ Last(conversation') = Last(conversation)
       /\ (\E k \in AssistantTurns(conversation') :
               \A j \in AssistantTurns(conversation) :
                   conversation[j].turn # conversation'[k].turn)
            => (pc = "think" /\ pc' = "for")]_vars

\* C14 witness: the two-unit reply of the first exchange is in the history,
\* whole, after its user turn, and the session listens again.
C14_Witness ==
    /\ pc = "listen"
    /\ Len(conversation) = 3
    /\ conversation[2].role = "user"
    /\ conversation[3].role = "assistant"
    /\ conversation[3].content = <<"H", "i", ".", " ", "N", "o", "!">>

\* the history exists from line 247 on
HistoryBuilt == pc # "start"

SystemFirst ==
    HistoryBuilt =>
        /\ conversation # <<>>
        /\ conversation[1] = SystemTurn
        /\ \A k \in 2..Len(conversation) : conversation[k].role # "system"

\* a step that shortens the history on the way back from playback: the turns
\* 2..n+1 (the n oldest after the system turn) are gone, the rest is kept in
\* order behind the system turn
Evicts ==
    pc \in Playback /\ pc' = "listen" /\ Len(conversation') < Len(conversation)

EvictsOldest ==
    \E n \in 1..(Len(conversation) - 1) :
        conversation' = <<conversation[1]>> \o
                        SubSeq(conversation, n + 2, Len(conversation))

\* C15: the first element of the history is always the system turn, and the
\* only one; an eviction removes the oldest turns after the system turn and
\* nothing else, keeping the later turns in their order.
C15_SystemTurnFirst ==
    /\ [](SystemFirst)
    /\ [][Evicts => EvictsOldest]_vars

\* C15 witness: the first exchange has been evicted: the history has its 11
\* entries, the system turn first, then the turns from the second exchange on.
C15_Witness ==
    /\ pc = "listen"
    /\ Len(conversation) = 11
    /\ conversation[1] = SystemTurn
    /\ conversation[2].role = "user"
    /\ conversation[2].turn > 1
    /\ \A k \in 2..10 : conversation[k].turn <= conversation[k + 1].turn

\* C16 (as claimed): the history never holds more than 11 entries, after a
\* user turn (what the reasoning call is handed) as after an assistant turn.
C16_HistoryBounded == Len(conversation) <= 11

\* the worker is between line 147 and the finally clause of line 160
Synthesizing == wpc = "play"

\* the steps of tts_worker() that start a unit (line 147) and end one (160)
UnitStarts == wpc = "check" /\ wpc' = "play"

UnitEnds == wpc = "play" /\ wpc' \in {"get", "crashed"}

\* C17: is_speaking is true exactly while the worker is between the start of
\* a dequeued unit and the end of that unit, however the unit ends; it is
\* false while the worker waits on the queue, skips a unit or has ended; and
\* only the worker's start and end of a unit change it.
C17_SpeakingIffSynthesizing ==
    /\ [](is_speaking <=> Synthesizing)
    /\ [][is_speaking' # is_speaking => UnitStarts \/ UnitEnds]_vars

\* C17 witness: the worker has said one unit to its end and the engine failed
\* on the next one; the thread has ended and is_speaking is clear.
C17_Witness ==
    /\ wpc = "crashed"
    /\ ~is_speaking
    /\ Len(played) >= 2
    /\ played[1].outcome = "finished"
    /\ played[Len(played)].outcome = "error"

\* unit n of the current reply has been said to its end without interruption
\* or failure, it is not the last one, and unit n + 1 has not been started
BetweenUnits(n) ==
    /\ n < Len(sentences)
    /\ ~interrupt_flag
    /\ \E k \in 1..Len(played) :
         /\ played[k].kind = "reply" /\ played[k].cyc = cycle
         /\ played[k].idx = n /\ played[k].outcome \in {"finished", "cap"}
    /\ \A k \in 1..Len(played) :
         ~(played[k].kind = "reply" /\ played[k].cyc = cycle
             /\ played[k].idx = n + 1)

\* C18 (as claimed): is_speaking does not drop between two consecutive units
\* of a reply played without interruption.
C18_SpeakingContinuous ==
    \A n \in 1..Len(sentences) : BetweenUnits(n) => is_speaking

\* C18 (amended): is_speaking is set at the start of each unit of a reply and
\* cleared at its end; between the end of one unit and the start of the next
\* it is false.
C18_DropsBetweenUnits ==
    /\ [](\A n \in 1..Len(sentences) : BetweenUnits(n) => ~is_speaking)
    /\ [][(UnitStarts => is_speaking') /\ (UnitEnds => ~is_speaking')]_vars

\* C18 witness: the first unit of a two-unit reply has finished and the second
\* is waiting in the queue.
C18_Witness ==
    /\ Len(sentences) = 2
    /\ BetweenUnits(1)
    /\ \E k \in 1..Len(tts_queue) :
         tts_queue[k] # None /\ tts_queue[k].kind = "reply"
           /\ tts_queue[k].cyc = cycle /\ tts_queue[k].idx = 2
    /\ ~is_speaking

\* an apology that can no longer be played: it is still on the queue when the
\* worker thread has ended or the process has exited, or the worker skipped it
ApologyLost ==
    \/ \E k \in 1..Len(tts_queue) :
         /\ tts_queue[k].kind = "apology"
         /\ (wpc \in {"crashed", "done"} \/ pc = "exited"
               \/ tts_queue[k].seq \in dropped)
    \/ cur.kind = "apology" /\ cur.seq \in dropped

\* C19 (as claimed): the apology enqueued after a reasoning failure is played
\* by the worker, whatever happened in earlier turns; it is never left on the
\* queue of a worker that has ended, nor skipped.
C19_ApologyPlayed == ~ApologyLost

\* main() is inside the try of lines 303-350: a turn has been started
InTurn ==
    pc \in {"think", "for", "speak", "wait", "after_wait", "after_for",
            "ack_wait"}

\* main() is at line 258 again, or past the break of line 293
TurnOver == pc \in {"listen", "shutdown", "join", "exited"}

\* C20: under fair scheduling of the threads every turn the session starts
\* ends with the session back at the top of its listening loop; neither wait
\* on is_speaking blocks for ever, also when a unit runs into the playback cap
\* or the worker has ended, and no step of a turn leaves the session loop.
C20_TurnEnds ==
    /\ InTurn ~> TurnOver
    /\ [][InTurn => pc' \in {"think", "for", "speak", "wait", "after_wait",
                             "after_for", "ack_wait", "listen"}]_vars

\* C20 witness: the worker ended on an engine error, the session went through
\* a whole reply afterwards (its units are still on the queue) and is
\* listening again.
C20_Witness ==
    /\ pc = "listen"
    /\ wpc = "crashed"
    /\ cycle >= 1
    /\ sentences # <<>>
    /\ \A n \in 1..Len(sentences) :
         \E k \in 1..Len(tts_queue) :
             /\ tts_queue[k].kind = "reply"
             /\ tts_queue[k].cyc = cycle /\ tts_queue[k].idx = n

\* a step of main() that is one capture (lines 262-274 and what follows)
Capture == pc = "listen" /\ turn' = turn + 1

\* the step put one more item on the queue, of the given kind
Enqueues(kind) ==
    /\ nenq' = nenq + 1
    /\ tts_queue' = Append(tts_queue, Last(tts_queue'))
    /\ Last(tts_queue').kind = kind

\* C21: a capture timeout below the threshold enqueues nothing; the
\* re-engagement prompt is enqueued on the third timeout counted since the
\* last reset and only then; the counter goes back to 0 with the prompt and
\* with every capture that succeeded; it is between 0 and 2 when a capture
\* starts.
C21_ReengageOnThirdTimeout ==
    /\ [](silence_count \in 0..2)
    /\ [][Capture =>
            /\ silence_count' \in {silence_count, silence_count + 1, 0}
            /\ (silence_count' = silence_count + 1 =>
                  /\ tts_queue' = tts_queue
                  /\ pc' = "listen" /\ conversation' = conversation)
            /\ (Enqueues("reengage") =>
                  silence_count = 2 /\ silence_count' = 0 /\ pc' = "listen")
            /\ (pc' # "listen" => silence_count' = 0)]_vars
    /\ [][~Capture =>
            /\ ~Enqueues("reengage")
            /\ (pc # "start" => silence_count' = silence_count)]_vars

\* C21 witness: three timeouts in a row: the prompt is on the queue right
\* behind the welcome and the counter is back at 0.
C21_Witness ==
    /\ pc = "listen"
    /\ turn = 3
    /\ silence_count = 0
    /\ Len(tts_queue) = 2
    /\ tts_queue[2].kind = "reengage"

HasExitWord(text) ==
    \E k \in 1..Len(text) : \E word \in EXIT_WORDS :
        /\ k + Len(word) - 1 <= Len(text)
        /\ \A j \in 1..Len(word) : lowerChar(text[k + j - 1]) = word[j]

\* a user turn made of a recognised text: trimmed, not empty, no exit word
ProperUserTurn(t) ==
    /\ t.role = "user"
    /\ t.content # <<>>
    /\ t.content[1] \notin Whitespace
    /\ t.content[Len(t.content)] \notin Whitespace
    /\ ~HasExitWord(t.content)

\* C22: a user turn is appended, and the reasoning call made, only for a
\* recognised text that is not empty and has no exit word; a capture that
\* leads to shutdown appends nothing, enqueues the farewell and makes no call;
\* a capture that leads back to listening leaves the history as it was.
C22_OnlyProperTextReasoned ==
    /\ [](\A k \in 2..Len(conversation) :
            conversation[k].role = "user" => ProperUserTurn(conversation[k]))
    /\ [](pc = "think" =>
            /\ conversation # <<>>
            /\ ProperUserTurn(Last(conversation)))
    /\ [][Capture =>
            /\ pc' \in {"listen", "think", "shutdown"}
            /\ (pc' = "think" =>
                  /\ Len(conversation') = Len(conversation) + 1
                  /\ SubSeq(conversation', 1, Len(conversation)) = conversation
                  /\ tts_queue' = tts_queue)
            /\ (pc' = "shutdown" =>
                  conversation' = conversation /\ Enqueues("farewell"))
            /\ (pc' = "listen" => conversation' = conversation)]_vars
    /\ [][(pc # "think" /\ pc' = "think") => Capture]_vars
    /\ [][(pc \in {"shutdown", "join", "exited"}) =>
            (pc' \in {"shutdown", "join", "exited"}
               /\ conversation' = conversation)]_vars

\* C22 witness: "hi" was answered in the first exchange, then "Bye bye" was
\* heard: the session is shutting down, the second text is not in the history.
C22_Witness ==
    /\ pc = "shutdown"
    /\ turn = 2
    /\ Len(conversation) = 3
    /\ conversation[2].content = <<"h", "i">>
    /\ Last(tts_queue).kind = "farewell"

\* C23 (as claimed): when the join of line 358 has returned, the worker has
\* taken the sentinel off the queue and ended; no other thread has taken the
\* sentinel.
C23_WorkerJoined ==
    pc = "exited" =>
        /\ wpc = "done"
        /\ \A k \in 1..Len(tts_queue) : tts_queue[k] # None

\* main() has put the sentinel on the queue (line 357)
ShutDown == \E k \in 1..Len(tts_queue) : tts_queue[k].kind = "None"

\* C24 (as claimed): once the sentinel has been put on the queue, a call of
\* speak() adds nothing to it.
C24_ClosedQueueRejects ==
    [][ShutDown => tts_queue' = tts_queue]_vars

\* C25: clear_speech_queue() returns whatever the worker is doing meanwhile;
\* when it has returned nothing that was queued at the call is still queued;
\* a second call right after the first changes nothing.
C25_ClearDrains ==
    /\ (pc = "clear1") ~> (pc = "returned")
    /\ [](pc \in {"clear2", "returned"} => tts_queue = <<>>)
    /\ [][(pc = "clear2") => tts_queue' = tts_queue]_vars

\* C25 witness: both calls have returned while the worker is still saying a
\* sentence; three queued sentences were taken off the queue unsaid.
C25_Witness ==
    /\ pc = "returned"
    /\ wpc = "play" /\ is_speaking
    /\ tts_queue = <<>>
    /\ dropped = {1, 2, 3}

\* monitor w is at the top of its loop and finds is_speaking clear
FindsSilence(w) == mpc[w] = "loop" /\ ~interrupt_flag /\ ~is_speaking

\* C26: a monitor that finds is_speaking clear opens no capture window and
\* runs no detection in that iteration: it stays at the top of its loop, and
\* what it heard last and interrupt_flag are as they were and nothing is taken
\* off the queue but by the worker.
C26_SilentWatcherIdle ==
    /\ [][\A w \in Monitors : FindsSilence(w) => mpc'[w] = "loop"]_vars
    /\ [][(\A w \in Monitors : Alive(w) => FindsSilence(w)) =>
            /\ heard' = heard
            /\ interrupt_flag' = interrupt_flag
            /\ dropped' = dropped
            /\ (Len(tts_queue') < Len(tts_queue) =>
                  wpc = "get" /\ wpc' # "get")]_vars

\* C26 witness: the monitor of the first reply is at the top of its loop
\* while nothing is being said and a unit is waiting on the queue; no capture
\* window has been opened yet.
C26_Witness ==
    /\ mpc[1] = "loop"
    /\ FindsSilence(1)
    /\ wpc = "get"
    /\ \E k \in 1..Len(tts_queue) : tts_queue[k].kind = "reply"
    /\ heard = NoAudio

\* monitor w comes out of check_for_interrupt, whose capture or recognition
\* failed (timeout, unintelligible speech, or another error)
DetectionFailed(w) ==
    mpc[w] = "check" /\ mpc'[w] # "check" /\ heard'.err # "none"

\* C27: a capture timeout, an unintelligible recording or any other error in
\* check_for_interrupt counts as no interruption: interrupt_flag and the queue
\* are left as they were and the monitor goes back to the top of its loop.
C27_DetectionErrorIsNoInterrupt ==
    [][\A w \in Monitors : DetectionFailed(w) =>
          /\ mpc'[w] = "loop"
          /\ interrupt_flag' = interrupt_flag
          /\ tts_queue' = tts_queue
          /\ dropped' = dropped]_vars

\* C27 witness: the recognition request of the first monitor failed, the
\* monitor is at the top of its loop again and interrupt_flag is clear.
C27_Witness ==
    /\ heard.err = "RequestError"
    /\ mpc[1] = "loop"
    /\ ~interrupt_flag
    /\ cycle = 1

\* the text without its leading and trailing blanks
RECURSIVE Trimmed(_)
Trimmed(t) ==
    IF t = <<>> THEN t
    ELSE IF t[1] = " " THEN Trimmed(Tail(t))
    ELSE IF t[Len(t)] = " " THEN Trimmed(SubSeq(t, 1, Len(t) - 1))
    ELSE t

\* position (0-based) of the first character of t at or after p that is not a
\* blank, Len(t) when there is none
RECURSIVE SkipBlanks(_, _)
SkipBlanks(t, p) ==
    IF p < Len(t) /\ t[p + 1] = " " THEN SkipBlanks(t, p + 1) ELSE p

\* the units, in their order, are consecutive pieces of t from position p on,
\* with nothing but blanks between them, and they reach the end of t
RECURSIVE Rejoins(_, _, _)
Rejoins(units, t, p) ==
    IF units = <<>> THEN p = Len(t)
    ELSE LET q == SkipBlanks(t, p)
             u == Head(units)
         IN  /\ q + Len(u) <= Len(t)
             /\ SubSeq(t, q + 1, q + Len(u)) = u
             /\ Rejoins(Tail(units), t, q + Len(u))

HasTerminator(t) == \E k \in 1..Len(t) : t[k] \in {".", "!", "?"}

Split == pc = "split_done"

\* C28: the units split_into_sentences returns are, in order, consecutive
\* pieces of the trimmed text with only the blanks that were split on between
\* them, up to its end: joined again with those blanks they give the trimmed
\* text; what follows the last terminator is the last unit.
C28_SplitLossless ==
    Split => Rejoins(sentences, Trimmed(answer.text), 0)

\* C28 witness: a text of two sentences, the second without a terminator
C28_Witness ==
    /\ Split
    /\ answer.text = <<"a", ".", " ", " ", "a">>
    /\ sentences = << <<"a", ".">>, <<"a">> >>

\* C29 (as claimed): split_into_sentences returns no unit that is empty or
\* made of blanks only, whatever the text.
C29_NoEmptyUnit ==
    Split => \A k \in 1..Len(sentences) : Trimmed(sentences[k]) # <<>>

\* C30: a text that is not empty and has no terminator gives one unit, the
\* trimmed text.
C30_OneUnitWithoutTerminator ==
    (Split /\ answer.text # <<>> /\ ~HasTerminator(answer.text)) =>
        sentences = <<Trimmed(answer.text)>>

\* C30 witness: blanks around and inside a text without terminator
C30_Witness ==
    /\ Split
    /\ answer.text = <<" ", "a", " ", "a", " ">>
    /\ sentences = << <<"a", " ", "a">> >>

\* the step sets interrupt_flag
FlagRaised == ~interrupt_flag /\ interrupt_flag'

\* the step is main() enqueueing the first unit of a reply (line 328)
FirstUnitEnqueued == pc = "speak" /\ i = 1 /\ pc' = "wait"

QueuedAs(c, n) ==
    {k \in 1..Len(tts_queue) :
        tts_queue[k].kind = "reply" /\ tts_queue[k].cyc = c
          /\ tts_queue[k].idx = n}

PlayedAs(c, n) ==
    {k \in 1..Len(played) :
        played[k].kind = "reply" /\ played[k].cyc = c /\ played[k].idx = n}

\* the worker will take nothing more off the queue
WorkerGone == wpc \in {"crashed", "done"} \/ pc = "exited"

\* C32 (as claimed): with interrupt_flag never set, every unit of a reply is
\* enqueued once, in order, and played once: no unit is on the queue twice or
\* said twice, none is skipped, and none is left on the queue of a worker
\* that has ended.
C32_EveryUnitPlayedOnce ==
    ~interrupt_flag =>
        \A c \in 1..cycle : \A n \in 1..MaxLen :
            /\ Cardinality(QueuedAs(c, n)) + Cardinality(PlayedAs(c, n)) <= 1
            /\ (\A k \in 1..Len(tts_queue) : tts_queue[k].kind = "reply" =>
                  tts_queue[k].seq \notin dropped)
            /\ (QueuedAs(c, n) # {} => ~WorkerGone)

\* the system turn followed by whole exchanges: a user turn and the
\* assistant turn that answers it, one pair after the other
WellPaired(conv) ==
    /\ conv # <<>>
    /\ conv[1].role = "system"
    /\ Len(conv) % 2 = 1
    /\ \A k \in 2..Len(conv) :
         IF k % 2 = 0
         THEN conv[k].role = "user"
         ELSE conv[k].role = "assistant" /\ conv[k].turn = conv[k - 1].turn

\* C33: whenever main() is at the top of its loop, about to start a capture,
\* the history is the system turn followed by complete (user, assistant)
\* pairs: its length is odd and the first turn kept after the system turn is
\* a user turn, after answered and failed exchanges and after eviction.
C33_HistoryWellPaired == pc = "listen" => WellPaired(conversation)

\* C33 witness: six exchanges were answered and the first was evicted: the
\* history starts, after the system turn, with the user turn of the second.
C33_Witness ==
    /\ pc = "listen"
    /\ turn = 6
    /\ Len(conversation) = 11
    /\ conversation[2].role = "user" /\ conversation[2].turn = 2
    /\ conversation[11].role = "assistant" /\ conversation[11].turn = 6

\* The caller is inside play() or stop().
InCall == client.pc # "idle"

\* The caller waits for the player's lock while holding it.
SelfBlocked == client.pc = "stop" /\ player.lock = "client"

\* C34: a play() made while the playing flag is set stops the previous
\* playback, starts the new one and returns; the caller never waits for the
\* lock it holds itself.
C34_PlayNeverSelfBlocks == ~SelfBlocked

\* The last two calls that returned were stop() and then a play() that
\* returned True in asynchronous mode, and the process it started is running.
LaterPlaybackRunning ==
    LET n == Len(client.calls)
    IN  /\ client.pc = "idle"
        /\ n >= 2
        /\ client.calls[n - 1].op = "stop"
        /\ client.calls[n].op = "play"
        /\ client.calls[n].async_mode
        /\ client.calls[n].ret = "True"
        /\ player.process # 0
        /\ procs[player.process] = "running"

\* The monitor thread of playback p ends its wait.
MonitorWakes(p) == monitors[p].pc = "wait" /\ monitors'[p].pc = "done"

\* C35: after stop() and a play() that returned True in asynchronous mode,
\* while the new process runs and stop() is not called, no monitor thread
\* that ends its wait changes the playing flag: is_playing() stays true.
C35_StaleMonitorKeepsFlag ==
    [][\A p \in 1..MaxCalls :
         (LaterPlaybackRunning /\ MonitorWakes(p))
            => player'.is_playing_flag = player.is_playing_flag]_vars

\* The play() in progress returns.
PlayReturns == client.pc \in {"try", "wait"} /\ client'.pc = "idle"

\* The backends gone through are the first ones of the order of lines
\* 278-293, and all but the last of them have failed.
InOrder(tried) ==
    /\ Len(tried) <= 4
    /\ \A k \in 1..Len(tried) :
         /\ tried[k].backend = <<"ffplay", "vlc", "mpg123", "system">>[k]
         /\ k < Len(tried) => ~tried[k].ok

\* C38: play() tries ffplay, VLC, mpg123 and the system default in this
\* order, stops at the first that starts (which is then the player in use,
\* and the only thing started by the call), and returns False only after all
\* four have failed.
C38_FirstWorkingBackend ==
    [][LET tried == client'.tried
           n == Len(tried)
           ret == client'.calls[Len(client'.calls)].ret
       IN  /\ InCall' => InOrder(tried)
           /\ PlayReturns =>
                /\ InOrder(tried)
                /\ n >= 1
                /\ ret = IF tried[n].ok THEN "True" ELSE "False"
                /\ ret = "False" => n = 4
                /\ ret = "True" => player'.player_type = tried[n].backend
           /\ Cardinality({p \in 1..MaxCalls : procs'[p] # "unborn"})
                <= Cardinality({p \in 1..MaxCalls : procs[p] # "unborn"}) + 1
           /\ (\E p \in 1..MaxCalls : procs[p] = "unborn" /\ procs'[p] # "unborn")
                => /\ client'.tried[Len(client'.tried)].ok
                   /\ client'.pc \in {"idle", "wait"}]_vars

\* A play() has returned True after ffplay and VLC failed and mpg123 started.
C38_Witness ==
    /\ client.pc = "idle"
    /\ Len(client.calls) >= 1
    /\ client.calls[Len(client.calls)] =
         [op |-> "play", async_mode |-> TRUE, ret |-> "True"]
    /\ Len(client.tried) = 3
    /\ ~client.tried[1].ok /\ ~client.tried[2].ok /\ client.tried[3].ok
    /\ player.player_type = "mpg123"
    /\ player.process # 0

\* The call of the agent function is over.
Answered == agent.pc = "returned"

\* What the call was given for the fields the validation looks at.
GivenConfidence ==
    CASE agent.fn \in {"AgentResponse", "chat_response", "hymn_response",
                       "sermon_response"} -> agent.args.confidence
      [] agent.fn = "error_response" -> 0
      [] OTHER -> 50

GivenAction ==
    CASE agent.fn = "AgentResponse" -> agent.args.action
      [] agent.fn \in {"hymn_response", "sermon_response"} -> "both"
      [] OTHER -> "speak"

GivenUrl ==
    IF agent.fn \in {"AgentResponse", "hymn_response", "sermon_response"}
    THEN agent.args.url ELSE "<None>"

Violating ==
    \/ GivenConfidence < 0
    \/ GivenConfidence > 100
    \/ GivenAction \in {"play", "both"} /\ GivenUrl \in {"<None>", ""}

\* C37: an AgentResponse that was constructed, directly or by a factory, has
\* a confidence between 0.0 and 1.0 and, with the action PLAY or BOTH, a
\* non-empty URL; a construction with a violating combination raises.
C37_ResponseValidated ==
    Answered =>
      /\ ~agent.result.raised =>
           /\ agent.result.value.confidence \in 0..100
           /\ agent.result.value.action \in {"play", "both"}
                => agent.result.value.url \notin {"<None>", ""}
           /\ agent.result.value.confidence = GivenConfidence
           /\ agent.result.value.action = GivenAction
           /\ agent.result.value.url = GivenUrl
      /\ Violating => agent.result.raised

\* hymn_response has built a response with the action BOTH and a URL.
C37_Witness ==
    /\ Answered
    /\ agent.fn = "hymn_response"
    /\ ~agent.result.raised
    /\ agent.result.value.action = "both"
    /\ agent.result.value.url = "a.mp3"
    /\ agent.result.value.confidence = 100

\* The query is None, empty or blank.
BlankQuery ==
    \/ agent.args.query.none
    \/ \A k \in 1..Len(agent.args.query.text) : agent.args.query.text[k] = " "

\* The response is the error with this code.
IsError(r, code) ==
    /\ ~r.value.success
    /\ r.value.type = "error"
    /\ r.value.error_code = code

\* C36: for every query and every outcome of the search, pages without
\* title, speaker or date included, search_sermon returns a response and does
\* not raise: EMPTY_QUERY for an empty query, SERMON_NOT_FOUND when nothing
\* was found, otherwise a playable response for the first result.
C36_SearchSermonNeverRaises ==
    Answered /\ agent.fn = "search_sermon" =>
      /\ ~agent.result.raised
      /\ CASE BlankQuery -> IsError(agent.result, "EMPTY_QUERY")
           [] ~BlankQuery /\ agent.args.results = <<>> ->
                IsError(agent.result, "SERMON_NOT_FOUND")
           [] OTHER ->
                /\ agent.result.value.success
                /\ agent.result.value.type = "sermon"
                /\ agent.result.value.action = "both"
                /\ agent.result.value.url = agent.args.results[1].mp3_url

\* What the sources returned to the call of search_hymn (nothing, if they
\* were not consulted), and what the call returned.
Consulted(source) == \E k \in 1..Len(agent.consulted) : agent.consulted[k] = source
Scm == IF Consulted("scm") THEN agent.args.scm ELSE <<>>
Arc == IF Consulted("archive") THEN agent.args.arc ELSE <<>>
Local == IF Consulted("local") THEN agent.args.local ELSE <<>>
Response == agent.result.value

\* SmallChurchMusic returned a choir, band, piano or organ result.
HasGood ==
    \E k \in 1..Len(Scm) : Scm[k].kind \in {"choir", "band", "piano", "organ"}

Online == Scm \o Arc
NothingFound == Scm = <<>> /\ Arc = <<>> /\ Local = <<>>

\* The results the answer is chosen from, in the order the sources gave them.
Pool == IF Online = <<>> THEN Local ELSE Online

Weight(kind) ==
    CASE kind = "choir" -> 0 [] kind = "band" -> 1 [] kind = "piano" -> 2
      [] kind = "organ" -> 3 [] OTHER -> 4

\* Result j of the pool comes before result k: a result of the preferred
\* kind before the others, then (online) the better kind, then the earlier.
Wanted(j) ==
    agent.args.prefer_kind # "<None>" /\ Pool[j].kind = agent.args.prefer_kind

Before(j, k) ==
    \/ Wanted(j) /\ ~Wanted(k)
    \/ /\ Wanted(j) = Wanted(k)
       /\ \/ Online # <<>> /\ Weight(Pool[j].kind) < Weight(Pool[k].kind)
          \/ /\ Online = <<>> \/ Weight(Pool[j].kind) = Weight(Pool[k].kind)
             /\ j < k

\* The result of the pool that comes n-th.
Nth(n) ==
    LET j == CHOOSE j \in 1..Len(Pool) :
                 Cardinality({k \in 1..Len(Pool) : Before(k, j)}) = n - 1
    IN  [title |-> Pool[j].title, url |-> Pool[j].url, kind |-> Pool[j].kind,
         source |-> Pool[j].source]

\* The response plays the first result and offers the next four at most.
PlaysFirst ==
    /\ ~agent.result.raised
    /\ Response.success
    /\ Response.type = "hymn"
    /\ Response.action = "both"
    /\ Response.url = Nth(1).url
    /\ Len(Response.alternatives) = Min(5, Len(Pool)) - 1
    /\ Len(Response.alternatives) <= 4
    /\ \A m \in 1..Len(Response.alternatives) :
         /\ Response.alternatives[m] = Nth(m + 1)
         /\ Response.alternatives[m] # Nth(1)

\* C39: Archive.org is consulted only when SmallChurchMusic returned no
\* choir, band, piano or organ result, the local folder only when the online
\* sources returned nothing, HYMN_NOT_FOUND is returned only when every
\* source returned nothing, and in all other cases the response is
\* successful and plays the first result after prioritisation and preference
\* filtering, with at most four alternatives, none of them the best match.
C39_SourcesInOrder ==
    Answered /\ agent.fn = "search_hymn" =>
      /\ Consulted("archive") => Consulted("scm") /\ ~HasGood
      /\ Consulted("local") => Consulted("scm") /\ Online = <<>>
      /\ IsError(agent.result, "HYMN_NOT_FOUND") => NothingFound
      /\ ~NothingFound => PlaysFirst
      /\ ~BlankQuery =>
           /\ Consulted("scm")
           /\ Consulted("archive") <=> ~HasGood
           /\ Consulted("local") <=> Online = <<>>
           /\ NothingFound => IsError(agent.result, "HYMN_NOT_FOUND")

\* Six online results, none of a good kind from SmallChurchMusic and an organ
\* from Archive.org, with instrumental preferred: the first SmallChurchMusic
\* file is played and four alternatives are offered.
C39_Witness ==
    /\ Answered
    /\ agent.fn = "search_hymn"
    /\ ~BlankQuery
    /\ agent.args.prefer_kind = "instrumental"
    /\ Len(Scm) = 3 /\ Len(Arc) = 3
    /\ Arc[1].kind = "organ"
    /\ agent.consulted = <<"scm", "archive">>
    /\ Response.url = "1.mp3"
    /\ Len(Response.alternatives) = 4
    /\ Response.alternatives[4].kind = "organ"

====
